---- MODULE Spec2Model ----
(***************************************************************************)
(* Model of pennylane/transforms/adjoint.py: the adjoint transform, the    *)
(* recording context it runs in and the operators it captures; and of      *)
(* pennylane/ops/qubit/qchem_ops.py: the seven excitation gates, their     *)
(* adjoint(), compute_decomposition, matrix and generator.                 *)
(***************************************************************************)
EXTENDS Integers, Sequences, FiniteSets, TLC

VARIABLES
    contexts,   \* the recording-context stack, bottom first
    fn,         \* the object handed to the innermost adjoint(fn)
    nest,       \* how many adjoint(...) wrappers are stacked on fn
    args,       \* the arguments of the wrapper call
    frames,     \* the active wrapper calls, outermost first
    pc,         \* position of the calling program: idle, running, done
    out,        \* the value the outermost wrapper returned
    err,        \* the error the caller received
    pre,        \* the recording-context stack when the call was made
    built,      \* operators fn constructed directly, in order
    expanded,   \* operators fn constructed inside a tape of its own
    inst,       \* the gate instance the last method call was made on
    method,     \* the method last called on a gate: adjoint, compute_decomposition
    result,     \* what that call returned or raised
    memo,       \* every compute_decomposition call made so far: arguments and result
    calls,      \* how many gate method calls were made
    mpc,        \* position of the matrix evaluation: idle, product, done
    mop,        \* the gate whose matrix is evaluated
    mtheta,     \* the parameter of a second gate of its kind composed with it
    todo,       \* operators of the decomposition still to multiply in
    acc         \* the matrix product of the operators applied so far

\* The wrapper's variables, the gate-method variables, the matrix variables.
wvars == <<contexts, fn, nest, args, frames, pc, out, err, pre, built, expanded>>
cvars == <<inst, method, result, memo, calls>>
mvars == <<mpc, mop, mtheta, todo, acc>>
vars == <<wvars, cvars, mvars>>

----------------------------------------------------------------------------
(* Bounds *)

MaxOps == 3        \* operators one procedure call constructs, at most
MaxNest == 2       \* adjoint(adjoint(...)) nesting depth, at most
MaxPrior == 1      \* operators the user constructs in one ambient tape, at most
MaxTapes == 1      \* ambient tapes the user opens around the call, at most

----------------------------------------------------------------------------
(* Operators as values *)

\* The angles the example calls pass (floats in the source; the sign is what
\* the transform could change, so nonzero integers stand for them).
Angles == {1, 2}

OpClasses == {"RX", "SingleExcitation", "QFT"}

\* num_params of a kind: QFT takes wires only.
NumParams(kind) == IF kind = "QFT" THEN 0 ELSE 1

\* Wires the example calls pass to each kind.
WireChoices(kind) ==
    CASE kind = "RX" -> {<<0>>, <<1>>}
      [] kind = "SingleExcitation" -> {<<0, 1>>}
      [] kind = "QFT" -> {<<0, 1, 2>>}

DataChoices(kind) == IF NumParams(kind) = 0 THEN {<<>>} ELSE {<<p>> : p \in Angles}

\* An operator instance: kind(data, wires) under adj generic Adjoint wrappers.
Operator(kind, data, wires) == [adj |-> 0, kind |-> kind, data |-> data, wires |-> wires]

\* The operators the functions under transformation construct.
FnOps ==
    {Operator("RX", <<1>>, <<0>>), Operator("RX", <<2>>, <<1>>),
     Operator("SingleExcitation", <<1>>, <<0, 1>>), Operator("QFT", <<>>, <<0, 1, 2>>)}

\* The kinds that define the closed-form adjoint() shortcut.
HasAdjoint(op) == op.adj = 0 /\ op.kind \in {"RX", "SingleExcitation"}


\* Adjoint(op): the generic wrapper; base is op, data and wires are the base's.
Adjoint(op) == [op EXCEPT !.adj = @ + 1]

----------------------------------------------------------------------------
(* Recording context and tapes *)

TapeEntry(ops) == [t |-> "tape", ops |-> ops]
StopEntry == [t |-> "stop", ops |-> <<>>]

Top(s) == s[Len(s)]
Pop(s) == SubSeq(s, 1, Len(s) - 1)

\* Operator construction notifies the top of the stack when it is a tape.
Recording(ctx) == ctx # <<>> /\ Top(ctx).t = "tape"

Queue(ctx, op) ==
    IF Recording(ctx)
    THEN [ctx EXCEPT ![Len(ctx)].ops = Append(@, op)]
    ELSE ctx

RECURSIVE QueueAll(_, _)
QueueAll(ctx, ops) ==
    IF ops = <<>> THEN ctx ELSE QueueAll(Queue(ctx, Head(ops)), Tail(ops))

----------------------------------------------------------------------------
(* Values a call returns *)

None == [t |-> "None", ops |-> <<>>]
OperatorValue(op) == [t |-> "Operator", ops |-> <<op>>]
ListValue(ops) == [t |-> "list", ops |-> ops]
TapeValue(ops) == [t |-> "QuantumTape", ops |-> ops]

\* Only a tape has the attribute .operations.
HasOperationsAlways(v) == TRUE
HasOperations(v) == v.t = "QuantumTape"

NoError == [type |-> "none", msg |-> <<>>]

----------------------------------------------------------------------------
(* The excitation gates of qchem_ops.py *)

QchemKinds ==
    {"SingleExcitation", "SingleExcitationMinus", "SingleExcitationPlus",
     "DoubleExcitation", "DoubleExcitationPlus", "DoubleExcitationMinus",
     "OrbitalRotation"}

\* num_wires of each class.
NumWires(kind) ==
    IF kind \in {"SingleExcitation", "SingleExcitationMinus", "SingleExcitationPlus"}
    THEN 2 ELSE 4

\* Angles are whole multiples of one fixed angle, the tick (its cosine and
\* sine are given with the matrices below).  A decomposition divides phi by
\* 2 or by 8, and a rotation by an angle turns the state by half of it, so
\* the parameters a kind is called with are the multiples of the smallest
\* phi whose every derived angle is still a whole number of ticks: phi / 2
\* for the single excitations, phi / 4 for OrbitalRotation (RY(phi / 2)),
\* phi / 16 for DoubleExcitation (RY(phi / 8)).
PhiUnit(kind) ==
    CASE kind = "DoubleExcitation" -> 16
      [] kind = "OrbitalRotation" -> 4
      [] OTHER -> 2

PhiChoices(kind) == {PhiUnit(kind), -PhiUnit(kind)}

\* The wires a gate is placed on: in order, and permuted.
GateWires(kind) ==
    IF NumWires(kind) = 2 THEN {<<0, 1>>, <<1, 0>>}
    ELSE {<<0, 1, 2, 3>>, <<3, 1, 0, 2>>}

\* phi / d of the source, exact on the angles above.
Over(phi, d) == phi \div d

\* An index into wires that always lands on the first wire.
WFirst(wires, i) == wires[1]

\* wires[i] of the source, which counts from 0.
W(wires, i) == wires[i + 1]

\* The operators the decompositions are made of.
PauliX(w) == Operator("PauliX", <<>>, <<w>>)
Hadamard(w) == Operator("Hadamard", <<>>, <<w>>)
RY(phi, w) == Operator("RY", <<phi>>, <<w>>)
CNOT(wires) == Operator("CNOT", <<>>, wires)
CRY(phi, wires) == Operator("CRY", <<phi>>, wires)
ControlledPhaseShift(phi, wires) == Operator("ControlledPhaseShift", <<phi>>, wires)

\* No gate instance yet.
NoInst == Operator("none", <<>>, <<>>)

\* A decomposition that answers with no operators.
EmptySequence(phi, wires) == <<>>

\* SingleExcitation.compute_decomposition
SingleExcitationDecomposition(phi, wires) ==
    <<CNOT(<<W(wires, 0), W(wires, 1)>>),
      CRY(phi, <<W(wires, 1), W(wires, 0)>>),
      CNOT(<<W(wires, 0), W(wires, 1)>>)>>

\* SingleExcitationMinus.compute_decomposition with the sign of the two
\* phase shifts lost.
SingleExcitationMinusUnsigned(phi, wires) ==
    <<PauliX(W(wires, 0)),
      PauliX(W(wires, 1)),
      ControlledPhaseShift(Over(phi, 2), <<W(wires, 1), W(wires, 0)>>),
      PauliX(W(wires, 0)),
      PauliX(W(wires, 1)),
      ControlledPhaseShift(Over(phi, 2), <<W(wires, 0), W(wires, 1)>>),
      CNOT(<<W(wires, 0), W(wires, 1)>>),
      CRY(phi, <<W(wires, 1), W(wires, 0)>>),
      CNOT(<<W(wires, 0), W(wires, 1)>>)>>

\* SingleExcitationMinus.compute_decomposition
SingleExcitationMinusDecomposition(phi, wires) ==
    <<PauliX(W(wires, 0)),
      PauliX(W(wires, 1)),
      ControlledPhaseShift(Over(-phi, 2), <<W(wires, 1), W(wires, 0)>>),
      PauliX(W(wires, 0)),
      PauliX(W(wires, 1)),
      ControlledPhaseShift(Over(-phi, 2), <<W(wires, 0), W(wires, 1)>>),
      CNOT(<<W(wires, 0), W(wires, 1)>>),
      CRY(phi, <<W(wires, 1), W(wires, 0)>>),
      CNOT(<<W(wires, 0), W(wires, 1)>>)>>

\* SingleExcitationPlus.compute_decomposition
SingleExcitationPlusDecomposition(phi, wires) ==
    <<PauliX(W(wires, 0)),
      PauliX(W(wires, 1)),
      ControlledPhaseShift(Over(phi, 2), <<W(wires, 1), W(wires, 0)>>),
      PauliX(W(wires, 0)),
      PauliX(W(wires, 1)),
      ControlledPhaseShift(Over(phi, 2), <<W(wires, 0), W(wires, 1)>>),
      CNOT(<<W(wires, 0), W(wires, 1)>>),
      CRY(phi, <<W(wires, 1), W(wires, 0)>>),
      CNOT(<<W(wires, 0), W(wires, 1)>>)>>

\* DoubleExcitation.compute_decomposition
DoubleExcitationDecomposition(phi, wires) ==
    <<CNOT(<<W(wires, 2), W(wires, 3)>>),
      CNOT(<<W(wires, 0), W(wires, 2)>>),
      Hadamard(W(wires, 3)),
      Hadamard(W(wires, 0)),
      CNOT(<<W(wires, 2), W(wires, 3)>>),
      CNOT(<<W(wires, 0), W(wires, 1)>>),
      RY(Over(phi, 8), W(wires, 1)),
      RY(Over(-phi, 8), W(wires, 0)),
      CNOT(<<W(wires, 0), W(wires, 3)>>),
      Hadamard(W(wires, 3)),
      CNOT(<<W(wires, 3), W(wires, 1)>>),
      RY(Over(phi, 8), W(wires, 1)),
      RY(Over(-phi, 8), W(wires, 0)),
      CNOT(<<W(wires, 2), W(wires, 1)>>),
      CNOT(<<W(wires, 2), W(wires, 0)>>),
      RY(Over(-phi, 8), W(wires, 1)),
      RY(Over(phi, 8), W(wires, 0)),
      CNOT(<<W(wires, 3), W(wires, 1)>>),
      Hadamard(W(wires, 3)),
      CNOT(<<W(wires, 0), W(wires, 3)>>),
      RY(Over(-phi, 8), W(wires, 1)),
      RY(Over(phi, 8), W(wires, 0)),
      CNOT(<<W(wires, 0), W(wires, 1)>>),
      CNOT(<<W(wires, 2), W(wires, 0)>>),
      Hadamard(W(wires, 0)),
      Hadamard(W(wires, 3)),
      CNOT(<<W(wires, 0), W(wires, 2)>>),
      CNOT(<<W(wires, 2), W(wires, 3)>>)>>

\* OrbitalRotation.compute_decomposition
OrbitalRotationDecomposition(phi, wires) ==
    <<Hadamard(W(wires, 3)),
      Hadamard(W(wires, 2)),
      CNOT(<<W(wires, 3), W(wires, 1)>>),
      CNOT(<<W(wires, 2), W(wires, 0)>>),
      RY(Over(phi, 2), W(wires, 3)),
      RY(Over(phi, 2), W(wires, 2)),
      RY(Over(phi, 2), W(wires, 1)),
      RY(Over(phi, 2), W(wires, 0)),
      CNOT(<<W(wires, 3), W(wires, 1)>>),
      CNOT(<<W(wires, 2), W(wires, 0)>>),
      Hadamard(W(wires, 3)),
      Hadamard(W(wires, 2))>>

\* The classes that define compute_decomposition: DoubleExcitationPlus and
\* DoubleExcitationMinus do not.
HasDecomposition(kind) ==
    kind \in {"SingleExcitation", "SingleExcitationMinus", "SingleExcitationPlus",
              "DoubleExcitation", "OrbitalRotation"}

\* What a class without compute_decomposition falls back to: the operator
\* base class raises the decomposition-undefined error.
DecompositionUndefinedError == [t |-> "DecompositionUndefinedError", ops |-> <<>>]

\* A compute_decomposition that is an instance method and reads the
\* parameter and the wires of the instance at hand.
compute_decomposition_of_self(kind, phi, wires) ==
    LET p == IF inst = NoInst THEN phi ELSE inst.data[1]
    IN  CASE kind = "SingleExcitation" -> ListValue(SingleExcitationDecomposition(p, wires))
          [] kind = "SingleExcitationMinus" -> ListValue(SingleExcitationMinusDecomposition(p, wires))
          [] kind = "SingleExcitationPlus" -> ListValue(SingleExcitationPlusDecomposition(p, wires))
          [] kind = "DoubleExcitation" -> ListValue(DoubleExcitationDecomposition(p, wires))
          [] kind = "OrbitalRotation" -> ListValue(OrbitalRotationDecomposition(p, wires))
          [] ~HasDecomposition(kind) -> DecompositionUndefinedError

\* kind.compute_decomposition(phi, wires): the list of operators the class
\* builds, or the base class's error.
compute_decomposition(kind, phi, wires) ==
    CASE kind = "SingleExcitation" -> ListValue(SingleExcitationDecomposition(phi, wires))
      [] kind = "SingleExcitationMinus" -> ListValue(SingleExcitationMinusDecomposition(phi, wires))
      [] kind = "SingleExcitationPlus" -> ListValue(SingleExcitationPlusDecomposition(phi, wires))
      [] kind = "DoubleExcitation" -> ListValue(DoubleExcitationDecomposition(phi, wires))
      [] kind = "OrbitalRotation" -> ListValue(OrbitalRotationDecomposition(phi, wires))
      [] ~HasDecomposition(kind) -> DecompositionUndefinedError

\* The adjoint() of the seven classes with the parameter passed on as it is.
OpAdjointUnnegated(op) == Operator(op.kind, op.data, op.wires)

\* op.adjoint(): each class returns an instance of itself on self.wires with
\* the parameter negated; RX does the same.
OpAdjoint(op) ==
    CASE op.kind = "SingleExcitation" -> Operator("SingleExcitation", <<-op.data[1]>>, op.wires)
      [] op.kind = "SingleExcitationMinus" -> Operator("SingleExcitationMinus", <<-op.data[1]>>, op.wires)
      [] op.kind = "SingleExcitationPlus" -> Operator("SingleExcitationPlus", <<-op.data[1]>>, op.wires)
      [] op.kind = "DoubleExcitation" -> Operator("DoubleExcitation", <<-op.data[1]>>, op.wires)
      [] op.kind = "DoubleExcitationPlus" -> Operator("DoubleExcitationPlus", <<-op.data[1]>>, op.wires)
      [] op.kind = "DoubleExcitationMinus" -> Operator("DoubleExcitationMinus", <<-op.data[1]>>, op.wires)
      [] op.kind = "OrbitalRotation" -> Operator("OrbitalRotation", <<-op.data[1]>>, op.wires)
      [] OTHER -> [op EXCEPT !.data = <<-op.data[1]>>]

----------------------------------------------------------------------------
(* Exact matrices *)

\* A complex number is a pair <<re, im>> of integers over a denominator kept
\* with the matrix it belongs to.
CAdd(a, b) == <<a[1] + b[1], a[2] + b[2]>>
CMul(a, b) == <<a[1] * b[1] - a[2] * b[2], a[1] * b[2] + a[2] * b[1]>>
CScale(k, a) == <<k * a[1], k * a[2]>>
Conj(a) == <<a[1], 0 - a[2]>>
Abs(k) == IF k < 0 THEN 0 - k ELSE k
Max(a, b) == IF a < b THEN b ELSE a

RECURSIVE Pow(_, _)
Pow(b, e) == IF e = 0 THEN 1 ELSE b * Pow(b, e - 1)

RECURSIVE CPow(_, _)
CPow(z, e) == IF e = 0 THEN <<1, 0>> ELSE CMul(z, CPow(z, e - 1))

\* The tick is the angle whose cosine is 3/5 and whose sine is 4/5, so the
\* cosine and sine of every whole number of ticks are exact fractions:
\* cos(k ticks) + i sin(k ticks) = Cis(k) / Radius^|k|.
Tick == <<3, 4>>
Radius == 5
Cis(k) == IF k < 0 THEN Conj(CPow(Tick, 0 - k)) ELSE CPow(Tick, k)

\* A matrix on nq wires: entry (i, j) is m[i][j] / (Radius^r * sqrt(2)^h);
\* rows and columns count from 0 and the first wire is the leading bit.
Dim(nq) == Pow(2, nq)
Indices(nq) == 0..(Dim(nq) - 1)
Scaled(nq, r, h, m) == [nq |-> nq, r |-> r, h |-> h, m |-> m]

Identity(nq) ==
    Scaled(nq, 0, 0, [i \in Indices(nq) |-> [j \in Indices(nq) |->
        IF i = j THEN <<1, 0>> ELSE <<0, 0>>]])

\* The same matrix over the denominator Radius^r * sqrt(2)^h.
Lift(A, r, h) ==
    LET k == Pow(Radius, r - A.r) * Pow(2, (h - A.h) \div 2)
    IN  Scaled(A.nq, r, h, [i \in Indices(A.nq) |-> [j \in Indices(A.nq) |->
            CScale(k, A.m[i][j])]])

\* Entry by entry equality of two matrices.
SameMatrix(A, B) ==
    /\ A.nq = B.nq
    /\ (Max(A.h, B.h) - A.h) % 2 = 0
    /\ (Max(A.h, B.h) - B.h) % 2 = 0
    /\ Lift(A, Max(A.r, B.r), Max(A.h, B.h)).m = Lift(B, Max(A.r, B.r), Max(A.h, B.h)).m

ConjugateTranspose(A) ==
    Scaled(A.nq, A.r, A.h, [i \in Indices(A.nq) |-> [j \in Indices(A.nq) |->
        Conj(A.m[j][i])]])

\* phase * A for a phase that is a power of i.
TimesPhase(phase, A) ==
    Scaled(A.nq, A.r, A.h, [i \in Indices(A.nq) |-> [j \in Indices(A.nq) |->
        CMul(phase, A.m[i][j])]])

RECURSIVE RowTimesColumn(_, _, _, _, _)
RowTimesColumn(A, B, i, j, k) ==
    IF k < 0 THEN <<0, 0>>
    ELSE CAdd(CMul(A.m[i][k], B.m[k][j]), RowTimesColumn(A, B, i, j, k - 1))

\* The matrix product A B.
MatMul(A, B) ==
    Scaled(A.nq, A.r + B.r, A.h + B.h, [i \in Indices(A.nq) |-> [j \in Indices(A.nq) |->
        RowTimesColumn(A, B, i, j, Dim(A.nq) - 1)]])

----------------------------------------------------------------------------
(* The matrices of the seven gates *)

\* An entry of a gate matrix: k * cos(theta/2)^c * sin(theta/2)^s *
\* exp(i e theta / 2), with e one of -1, 0, 1.
Mono(k, c, s, e) == [k |-> k, c |-> c, s |-> s, e |-> e]

\* SingleExcitation._matrix with both off-diagonal entries +sin.
SingleExcitationMatrixSymmetric(i, j) ==
    CASE i = j /\ i \in {0, 3} -> Mono(1, 0, 0, 0)
      [] i = j /\ i \in {1, 2} -> Mono(1, 1, 0, 0)
      [] i = 1 /\ j = 2 -> Mono(1, 0, 1, 0)
      [] i = 2 /\ j = 1 -> Mono(1, 0, 1, 0)
      [] OTHER -> Mono(0, 0, 0, 0)

\* SingleExcitation._matrix: diag([1, c, c, 1]) + s * off_diag
SingleExcitationMatrix(i, j) ==
    CASE i = j /\ i \in {0, 3} -> Mono(1, 0, 0, 0)
      [] i = j /\ i \in {1, 2} -> Mono(1, 1, 0, 0)
      [] i = 1 /\ j = 2 -> Mono(-1, 0, 1, 0)
      [] i = 2 /\ j = 1 -> Mono(1, 0, 1, 0)
      [] OTHER -> Mono(0, 0, 0, 0)

\* SingleExcitationMinus._matrix: e = exp(-1j * theta / 2)
SingleExcitationMinusMatrix(i, j) ==
    CASE i = j /\ i \in {0, 3} -> Mono(1, 0, 0, -1)
      [] i = j /\ i \in {1, 2} -> Mono(1, 1, 0, 0)
      [] i = 1 /\ j = 2 -> Mono(-1, 0, 1, 0)
      [] i = 2 /\ j = 1 -> Mono(1, 0, 1, 0)
      [] OTHER -> Mono(0, 0, 0, 0)

\* SingleExcitationPlus._matrix: e = exp(1j * theta / 2)
SingleExcitationPlusMatrix(i, j) ==
    CASE i = j /\ i \in {0, 3} -> Mono(1, 0, 0, 1)
      [] i = j /\ i \in {1, 2} -> Mono(1, 1, 0, 0)
      [] i = 1 /\ j = 2 -> Mono(-1, 0, 1, 0)
      [] i = 2 /\ j = 1 -> Mono(1, 0, 1, 0)
      [] OTHER -> Mono(0, 0, 0, 0)

\* DoubleExcitation._matrix with the two off-diagonal entries exchanged.
DoubleExcitationMatrixTransposed(i, j) ==
    CASE i = j /\ i \in {3, 12} -> Mono(1, 1, 0, 0)
      [] i = j /\ i \notin {3, 12} -> Mono(1, 0, 0, 0)
      [] i = 3 /\ j = 12 -> Mono(1, 0, 1, 0)
      [] i = 12 /\ j = 3 -> Mono(-1, 0, 1, 0)
      [] OTHER -> Mono(0, 0, 0, 0)

\* DoubleExcitation._matrix
DoubleExcitationMatrix(i, j) ==
    CASE i = j /\ i \in {3, 12} -> Mono(1, 1, 0, 0)
      [] i = j /\ i \notin {3, 12} -> Mono(1, 0, 0, 0)
      [] i = 3 /\ j = 12 -> Mono(-1, 0, 1, 0)
      [] i = 12 /\ j = 3 -> Mono(1, 0, 1, 0)
      [] OTHER -> Mono(0, 0, 0, 0)

\* DoubleExcitationPlus._matrix: e = exp(1j * theta / 2)
DoubleExcitationPlusMatrix(i, j) ==
    CASE i = j /\ i \in {3, 12} -> Mono(1, 1, 0, 0)
      [] i = j /\ i \notin {3, 12} -> Mono(1, 0, 0, 1)
      [] i = 3 /\ j = 12 -> Mono(-1, 0, 1, 0)
      [] i = 12 /\ j = 3 -> Mono(1, 0, 1, 0)
      [] OTHER -> Mono(0, 0, 0, 0)

\* DoubleExcitationMinus._matrix: e = exp(-1j * theta / 2)
DoubleExcitationMinusMatrix(i, j) ==
    CASE i = j /\ i \in {3, 12} -> Mono(1, 1, 0, 0)
      [] i = j /\ i \notin {3, 12} -> Mono(1, 0, 0, -1)
      [] i = 3 /\ j = 12 -> Mono(-1, 0, 1, 0)
      [] i = 12 /\ j = 3 -> Mono(1, 0, 1, 0)
      [] OTHER -> Mono(0, 0, 0, 0)

\* OrbitalRotation._matrix: the diagonal [1, c, c, c**2, c, 1, c**2, c, c,
\* c**2, 1, c, c**2, c, c, 1], as powers of c, plus the stacked rows.
OrbitalRotationDiagonal == <<0, 1, 1, 2, 1, 0, 2, 1, 1, 2, 0, 1, 2, 1, 1, 0>>

OrbitalRotationMatrix(i, j) ==
    CASE i = j -> Mono(1, OrbitalRotationDiagonal[i + 1], 0, 0)
      [] i = 1 /\ j = 4 -> Mono(-1, 0, 1, 0)
      [] i = 2 /\ j = 8 -> Mono(-1, 0, 1, 0)
      [] i = 3 /\ j = 6 -> Mono(-1, 1, 1, 0)
      [] i = 3 /\ j = 9 -> Mono(-1, 1, 1, 0)
      [] i = 3 /\ j = 12 -> Mono(1, 0, 2, 0)
      [] i = 4 /\ j = 1 -> Mono(1, 0, 1, 0)
      [] i = 6 /\ j = 3 -> Mono(1, 1, 1, 0)
      [] i = 6 /\ j = 9 -> Mono(-1, 0, 2, 0)
      [] i = 6 /\ j = 12 -> Mono(-1, 1, 1, 0)
      [] i = 7 /\ j = 13 -> Mono(-1, 0, 1, 0)
      [] i = 8 /\ j = 2 -> Mono(1, 0, 1, 0)
      [] i = 9 /\ j = 3 -> Mono(1, 1, 1, 0)
      [] i = 9 /\ j = 6 -> Mono(-1, 0, 2, 0)
      [] i = 9 /\ j = 12 -> Mono(-1, 1, 1, 0)
      [] i = 11 /\ j = 14 -> Mono(-1, 0, 1, 0)
      [] i = 12 /\ j = 3 -> Mono(1, 0, 2, 0)
      [] i = 12 /\ j = 6 -> Mono(1, 1, 1, 0)
      [] i = 12 /\ j = 9 -> Mono(1, 1, 1, 0)
      [] i = 13 /\ j = 7 -> Mono(1, 0, 1, 0)
      [] i = 14 /\ j = 11 -> Mono(1, 0, 1, 0)
      [] OTHER -> Mono(0, 0, 0, 0)

\* The entry (i, j) of kind._matrix as the code writes it.
MatrixEntry(kind, i, j) ==
    CASE kind = "SingleExcitation" -> SingleExcitationMatrix(i, j)
      [] kind = "SingleExcitationMinus" -> SingleExcitationMinusMatrix(i, j)
      [] kind = "SingleExcitationPlus" -> SingleExcitationPlusMatrix(i, j)
      [] kind = "DoubleExcitation" -> DoubleExcitationMatrix(i, j)
      [] kind = "DoubleExcitationPlus" -> DoubleExcitationPlusMatrix(i, j)
      [] kind = "DoubleExcitationMinus" -> DoubleExcitationMinusMatrix(i, j)
      [] kind = "OrbitalRotation" -> OrbitalRotationMatrix(i, j)

\* The highest total power of c, s and e in an entry of the kind's matrix.
Degree(kind) == IF kind = "OrbitalRotation" THEN 2 ELSE 1

\* The value of an entry where cos(theta/2) + i sin(theta/2) = z / R, over
\* the denominator R^deg.
Value(mono, z, R, deg) ==
    LET e == IF mono.e = 0 THEN <<1, 0>> ELSE IF mono.e = 1 THEN z ELSE Conj(z)
        n == mono.k * Pow(z[1], mono.c) * Pow(z[2], mono.s)
                    * Pow(R, deg - mono.c - mono.s - Abs(mono.e))
    IN  CScale(n, e)

\* kind._matrix(theta): c = cos(theta / 2), s = sin(theta / 2).
matrix(kind, theta) ==
    LET half == Over(theta, 2)
        nq == NumWires(kind)
    IN  Scaled(nq, Abs(half) * Degree(kind), 0,
            [i \in Indices(nq) |-> [j \in Indices(nq) |->
                Value(MatrixEntry(kind, i, j), Cis(half), Pow(Radius, Abs(half)), Degree(kind))]])

----------------------------------------------------------------------------
(* The matrices of the operators the decompositions use *)

\* Bit q of the row index i on nq wires, wire 0 leading.
Bit(i, q, nq) == (i \div Pow(2, nq - 1 - q)) % 2
SetBit(i, q, nq, b) == i + (b - Bit(i, q, nq)) * Pow(2, nq - 1 - q)

\* The place of wire w among the wires of the decomposed gate, from 0.
Pos(wires, w) == (CHOOSE q \in 1..Len(wires) : wires[q] = w) - 1

\* The 2 x 2 block an operator applies to its last wire, over the
\* denominator Radius^r * sqrt(2)^h:
\*   PauliX [[0, 1], [1, 0]], Hadamard [[1, 1], [1, -1]] / sqrt(2),
\*   RY(t) and CRY(t) [[cos(t/2), -sin(t/2)], [sin(t/2), cos(t/2)]],
\*   ControlledPhaseShift(t) [[1, 0], [0, exp(i t)]]; CNOT applies PauliX.
Block(op) ==
    CASE op.kind \in {"PauliX", "CNOT"} ->
            [r |-> 0, h |-> 0, g |-> <<<< <<0, 0>>, <<1, 0>> >>, << <<1, 0>>, <<0, 0>> >>>>]
      [] op.kind = "Hadamard" ->
            [r |-> 0, h |-> 1, g |-> <<<< <<1, 0>>, <<1, 0>> >>, << <<1, 0>>, <<-1, 0>> >>>>]
      [] op.kind \in {"RY", "CRY"} ->
            LET half == Over(op.data[1], 2)
                c == Cis(half)[1]
                s == Cis(half)[2]
            IN  [r |-> Abs(half), h |-> 0,
                 g |-> <<<< <<c, 0>>, <<0 - s, 0>> >>, << <<s, 0>>, <<c, 0>> >>>>]
      [] op.kind = "ControlledPhaseShift" ->
            [r |-> Abs(op.data[1]), h |-> 0,
             g |-> <<<< <<Pow(Radius, Abs(op.data[1])), 0>>, <<0, 0>> >>,
                     << <<0, 0>>, Cis(op.data[1]) >>>>]

\* Operators whose block acts only where their first wire is 1.
IsControlled(op) == op.kind \in {"CNOT", "CRY", "ControlledPhaseShift"}

\* The product (op on the wires of the gate) * A.
ApplyOp(op, A, wires) ==
    LET nq == A.nq
        b == Block(op)
        t == Pos(wires, op.wires[Len(op.wires)])
        ctl == IF IsControlled(op) THEN Pos(wires, op.wires[1]) ELSE t
        entry(i, j) ==
            IF IsControlled(op) /\ Bit(i, ctl, nq) = 0
            THEN CScale(Pow(Radius, b.r), A.m[i][j])
            ELSE CAdd(CMul(b.g[Bit(i, t, nq) + 1][1], A.m[SetBit(i, t, nq, 0)][j]),
                      CMul(b.g[Bit(i, t, nq) + 1][2], A.m[SetBit(i, t, nq, 1)][j]))
    IN  Scaled(nq, A.r + b.r, A.h + b.h,
            [i \in Indices(nq) |-> [j \in Indices(nq) |-> entry(i, j)]])

----------------------------------------------------------------------------
(* Generators *)

\* The entry (a, b) of a one-wire Pauli matrix.
PauliEntry(P, a, b) ==
    CASE P = "I" -> IF a = b THEN <<1, 0>> ELSE <<0, 0>>
      [] P = "X" -> IF a = b THEN <<0, 0>> ELSE <<1, 0>>
      [] P = "Y" -> IF a = b THEN <<0, 0>> ELSE IF a = 0 THEN <<0, -1>> ELSE <<0, 1>>
      [] P = "Z" -> IF a # b THEN <<0, 0>> ELSE IF a = 0 THEN <<1, 0>> ELSE <<-1, 0>>

\* The entry (i, j) of the tensor product of the Pauli matrices of word,
\* one letter per wire of the gate, from wire q on.
RECURSIVE WordEntry(_, _, _, _)
WordEntry(word, i, j, q) ==
    IF q = Len(word) THEN <<1, 0>>
    ELSE CMul(PauliEntry(word[q + 1], Bit(i, q, Len(word)), Bit(j, q, Len(word))),
              WordEntry(word, i, j, q + 1))

\* The entry (i, j) of the sum of the terms coef * word.
RECURSIVE SumEntry(_, _, _)
SumEntry(terms, i, j) ==
    IF terms = <<>> THEN <<0, 0>>
    ELSE CAdd(CScale(Head(terms).coef, WordEntry(Head(terms).word, i, j, 0)),
              SumEntry(Tail(terms), i, j))

Term(coef, word) == [coef |-> coef, word |-> word]

\* SingleExcitation.generator with the two terms added instead of subtracted.
SingleExcitationGeneratorSum ==
    <<Term(1, <<"X", "Y">>), Term(1, <<"Y", "X">>)>>

\* SingleExcitation.generator, in quarters:
\* 0.25 X(w1) Y(w2) - 0.25 Y(w1) X(w2)
SingleExcitationGenerator ==
    <<Term(1, <<"X", "Y">>), Term(-1, <<"Y", "X">>)>>

\* SingleExcitationMinus.generator, in quarters.
SingleExcitationMinusGenerator ==
    <<Term(-1, <<"I", "I">>), Term(1, <<"X", "Y">>), Term(-1, <<"Y", "X">>),
      Term(-1, <<"Z", "Z">>)>>

\* SingleExcitationPlus.generator, in quarters.
SingleExcitationPlusGenerator ==
    <<Term(1, <<"I", "I">>), Term(1, <<"X", "Y">>), Term(-1, <<"Y", "X">>),
      Term(1, <<"Z", "Z">>)>>

\* DoubleExcitation.generator, in sixteenths: coeffs and obs, pairwise.
DoubleExcitationGenerator ==
    <<Term(1, <<"X", "X", "X", "Y">>), Term(1, <<"X", "X", "Y", "X">>),
      Term(-1, <<"X", "Y", "X", "X">>), Term(1, <<"X", "Y", "Y", "Y">>),
      Term(-1, <<"Y", "X", "X", "X">>), Term(1, <<"Y", "X", "Y", "Y">>),
      Term(-1, <<"Y", "Y", "X", "Y">>), Term(-1, <<"Y", "Y", "Y", "X">>)>>

\* OrbitalRotation.generator, in quarters.
OrbitalRotationGenerator ==
    <<Term(1, <<"X", "I", "Y", "I">>), Term(-1, <<"Y", "I", "X", "I">>),
      Term(1, <<"I", "X", "I", "Y">>), Term(-1, <<"I", "Y", "I", "X">>)>>

\* The matrix G the sparse generators start from: sign * eye(16) with
\* G[3, 3] = G[12, 12] = 0, G[3, 12] = -1j, G[12, 3] = 1j.
SparseG(sign, i, j) ==
    CASE i = 3 /\ j = 12 -> <<0, -1>>
      [] i = 12 /\ j = 3 -> <<0, 1>>
      [] i = j /\ i \notin {3, 12} -> <<sign, 0>>
      [] OTHER -> <<0, 0>>

\* DoubleExcitationPlus.generator without the entry G[12, 3].
DoubleExcitationPlusGeneratorOneSided(i, j) ==
    IF i = 12 /\ j = 3 THEN <<0, 0>> ELSE CScale(-1, SparseG(-1, i, j))

\* DoubleExcitationPlus.generator, in halves: H = -0.5 * G, G from -1 * eye(16).
DoubleExcitationPlusGenerator(i, j) == CScale(-1, SparseG(-1, i, j))

\* DoubleExcitationMinus.generator, in halves: H = -0.5 * G, G from eye(16).
DoubleExcitationMinusGenerator(i, j) == CScale(-1, SparseG(1, i, j))

\* The denominator of the entries: the coefficients are 0.25, 0.0625, 0.5.
GeneratorDen(kind) ==
    CASE kind = "DoubleExcitation" -> 16
      [] kind \in {"DoubleExcitationPlus", "DoubleExcitationMinus"} -> 2
      [] OTHER -> 4

\* The entry (i, j) of kind.generator() times GeneratorDen(kind).
GeneratorEntry(kind, i, j) ==
    CASE kind = "SingleExcitation" -> SumEntry(SingleExcitationGenerator, i, j)
      [] kind = "SingleExcitationMinus" -> SumEntry(SingleExcitationMinusGenerator, i, j)
      [] kind = "SingleExcitationPlus" -> SumEntry(SingleExcitationPlusGenerator, i, j)
      [] kind = "DoubleExcitation" -> SumEntry(DoubleExcitationGenerator, i, j)
      [] kind = "DoubleExcitationPlus" -> DoubleExcitationPlusGenerator(i, j)
      [] kind = "DoubleExcitationMinus" -> DoubleExcitationMinusGenerator(i, j)
      [] kind = "OrbitalRotation" -> SumEntry(OrbitalRotationGenerator, i, j)

\* kind.generator() as a matrix of numerators over GeneratorDen(kind).
generator(kind) ==
    [i \in Indices(NumWires(kind)) |-> [j \in Indices(NumWires(kind)) |->
        GeneratorEntry(kind, i, j)]]

\* Twice the derivative of the entry at theta = 0, where c = 1, s = 0 and
\* e = 1: d/dtheta of k c^a s^b exp(i e theta / 2) is k / 2 if b = 1,
\* i k e / 2 if b = 0 and 0 otherwise.
TwiceDerivative(mono) ==
    CASE mono.s = 1 -> <<mono.k, 0>>
      [] mono.s = 0 -> <<0, mono.k * mono.e>>
      [] OTHER -> <<0, 0>>

\* Twice the derivative of kind._matrix at theta = 0.
TwiceDerivativeAtZero(kind) ==
    [i \in Indices(NumWires(kind)) |-> [j \in Indices(NumWires(kind)) |->
        TwiceDerivative(MatrixEntry(kind, i, j))]]

----------------------------------------------------------------------------
(* The objects adjoint() is applied to *)

\* The runtime types of the non-callable objects of the test module.
NonCallableTypes == {"RX", "AngleEmbedding", "list", "QuantumTape"}

Fns ==
    {[form |-> "opclass", name |-> k] : k \in OpClasses}
        \cup {[form |-> "function", name |-> "function"]}
        \cup {[form |-> "object", name |-> n] : n \in NonCallableTypes}

NoFn == [form |-> "none", name |-> "none"]

\* callable(fn): operator classes, functions and wrappers are; instances are not.
callableAnything(f) == TRUE
callable(f) == f.form \in {"opclass", "function"}

Text(s) == [k |-> "text", v |-> s]
Repr(f) == [k |-> "repr", v |-> f.name]
TypeOf(f) == [k |-> "type", v |-> f.name]

\* The ValueError adjoint() raises for a non-callable fn.
NotCallableError(f) ==
    [type |-> "ValueError",
     msg |-> <<Text("The object"), Repr(f), Text("of type"), TypeOf(f),
               Text("is not callable."),
               Text("This error might occur if you apply adjoint to a list of operations instead of a function or template.")>>]

\* The arguments a call passes: an operator class takes (data, wires).
NoArgs == [data |-> <<>>, wires |-> <<>>]

ArgChoices(f) ==
    IF f.form = "opclass"
    THEN {[data |-> d, wires |-> w] : d \in DataChoices(f.name), w \in WireChoices(f.name)}
    ELSE {NoArgs}

----------------------------------------------------------------------------
(* The wrapper built by adjoint(fn) *)

\* One wrapper call: its position, its tape, fn's result, its outputs and
\* the error travelling through its with-block.
NewFrame ==
    [pc |-> "stop_recording", tape |-> TapeValue(<<>>), res |-> None,
     adjoint_ops |-> <<>>, exc |-> NoError]

Cur == frames[Len(frames)]
At(p) == pc = "running" /\ frames # <<>> /\ Cur.pc = p
Innermost == Len(frames) = nest

SetCur(f) == [frames EXCEPT ![Len(frames)] = f]

\* Leaving the inner tape of the with-block: it is popped on every path.
ExitInnerLeaky(ctx, exc) == IF exc = NoError THEN Pop(ctx) ELSE ctx
ExitInnerNever(ctx, exc) == ctx
ExitInner(ctx, exc) == Pop(ctx)

\* if not tape.operations: tape = res
UseResultNever(tape, res) == tape
UseResult(tape, res) == IF tape.ops = <<>> THEN res ELSE tape

RECURSIVE reversed(_)
reversed(s) == IF s = <<>> THEN <<>> ELSE Append(reversed(Tail(s)), Head(s))

\* [Adjoint(op) for op in reversed(tape.operations)]
AdjointOpsUnreversed(ops) == [i \in 1..Len(ops) |-> Adjoint(ops[i])]
AdjointOpsShortcut(ops) ==
    [i \in 1..Len(ops) |->
        LET op == reversed(ops)[i] IN IF HasAdjoint(op) THEN OpAdjoint(op) ELSE Adjoint(op)]
AdjointOps(ops) == [i \in 1..Len(ops) |-> Adjoint(reversed(ops)[i])]

\* adjoint_ops[0] if len(adjoint_ops) == 1 else adjoint_ops
ReturnValueList(adjoint_ops) == ListValue(adjoint_ops)
ReturnValue(adjoint_ops) ==
    IF Len(adjoint_ops) = 1 THEN OperatorValue(adjoint_ops[1]) ELSE ListValue(adjoint_ops)

\* Each Adjoint(op) is constructed in the context active at that moment.
EmitNothing(ctx, ops) == ctx
Emit(ctx, ops) == QueueAll(ctx, ops)

\* An error leaves the wrapper call on top: the caller is the next wrapper's
\* with-block, or the program.
Raise(e) ==
    IF Len(frames) = 1
    THEN /\ frames' = <<>>
         /\ pc' = "done"
         /\ err' = e
         /\ out' = None
    ELSE /\ frames' = [Pop(frames) EXCEPT ![Len(frames) - 1].exc = e,
                                          ![Len(frames) - 1].pc = "exit"]
         /\ UNCHANGED <<pc, err, out>>

\* A value leaves the wrapper call on top.
Deliver(v) ==
    IF Len(frames) = 1
    THEN /\ frames' = <<>>
         /\ pc' = "done"
         /\ out' = v
         /\ UNCHANGED err
    ELSE /\ frames' = [Pop(frames) EXCEPT ![Len(frames) - 1].res = v,
                                          ![Len(frames) - 1].pc = "exit"]
         /\ UNCHANGED <<pc, err, out>>

----------------------------------------------------------------------------
(* The calling program *)

Init ==
    /\ contexts = <<>>
    /\ fn = NoFn
    /\ nest = 0
    /\ args = NoArgs
    /\ frames = <<>>
    /\ pc = "idle"
    /\ out = None
    /\ err = NoError
    /\ pre = <<>>
    /\ built = <<>>
    /\ expanded = <<>>
    /\ inst = NoInst
    /\ method = "none"
    /\ result = None
    /\ memo = {}
    /\ calls = 0
    /\ mpc = "idle"
    /\ mop = NoInst
    /\ mtheta = 0
    /\ todo = <<>>
    /\ acc = <<>>

\* with qml.tape.QuantumTape() as tape: the program opens the ambient tape.
UserEnterTape ==
    /\ UNCHANGED <<cvars, mvars>>
    /\ pc = "idle" /\ fn = NoFn
    /\ Len(contexts) < MaxTapes
    /\ contexts' = Append(contexts, TapeEntry(<<>>))
    /\ pre' = contexts'
    /\ UNCHANGED <<fn, nest, args, frames, pc, out, err, built, expanded>>

\* qml.RX(0.123, wires=0) ahead of the transform, as in the usage example.
UserConstruct ==
    /\ UNCHANGED <<cvars, mvars>>
    /\ pc = "idle" /\ fn = NoFn
    /\ Recording(contexts)
    /\ Len(Top(contexts).ops) < MaxPrior
    /\ contexts' = Queue(contexts, Operator("RX", <<1>>, <<0>>))
    /\ pre' = contexts'
    /\ UNCHANGED <<fn, nest, args, frames, pc, out, err, built, expanded>>

\* adjoint(f): rejects a non-callable, otherwise returns a wrapper; applied to
\* a wrapper it stacks another one.
adjoint(f) ==
    /\ UNCHANGED <<cvars, mvars>>
    /\ pc = "idle"
    /\ nest < MaxNest
    /\ IF nest = 0 THEN f \in Fns ELSE f = fn
    /\ fn' = f
    /\ IF nest = 0 /\ ~callable(f)
       THEN /\ err' = NotCallableError(f)
            /\ pc' = "done"
            /\ UNCHANGED nest
       ELSE /\ nest' = nest + 1
            /\ UNCHANGED <<err, pc>>
    /\ pre' = contexts
    /\ UNCHANGED <<contexts, args, frames, out, built, expanded>>

\* wrapper(*args, **kwargs) is called.
wrapper(a) ==
    /\ UNCHANGED <<cvars, mvars>>
    /\ pc = "idle"
    /\ nest >= 1
    /\ a \in ArgChoices(fn)
    /\ args' = a
    /\ frames' = <<NewFrame>>
    /\ pc' = "running"
    /\ pre' = contexts
    /\ UNCHANGED <<contexts, fn, nest, out, err, built, expanded>>

----------------------------------------------------------------------------
(* Steps of one wrapper call *)

\* with stop_recording(), ...: the ambient context is suspended.
StopRecording ==
    /\ UNCHANGED <<cvars, mvars>>
    /\ At("stop_recording")
    /\ contexts' = Append(contexts, StopEntry)
    /\ frames' = SetCur([Cur EXCEPT !.pc = "enter"])
    /\ UNCHANGED <<fn, nest, args, pc, out, err, pre, built, expanded>>

\* ..., QuantumTape() as tape: a fresh inner tape is entered.
EnterTape ==
    /\ UNCHANGED <<cvars, mvars>>
    /\ At("enter")
    /\ contexts' = Append(contexts, TapeEntry(<<>>))
    /\ frames' = SetCur([Cur EXCEPT !.pc = "call"])
    /\ UNCHANGED <<fn, nest, args, pc, out, err, pre, built, expanded>>

\* res = fn(...) where fn is itself a wrapper: the inner wrapper call starts.
CallWrapper ==
    /\ UNCHANGED <<cvars, mvars>>
    /\ At("call") /\ ~Innermost
    /\ frames' = Append(SetCur([Cur EXCEPT !.pc = "await"]), NewFrame)
    /\ UNCHANGED <<contexts, fn, nest, args, pc, out, err, pre, built, expanded>>

\* res = OpClass(*args, **kwargs): one operator is constructed and returned.
CallOpClass ==
    /\ UNCHANGED <<cvars, mvars>>
    /\ At("call") /\ Innermost /\ fn.form = "opclass"
    /\ LET op == Operator(fn.name, args.data, args.wires) IN
        /\ contexts' = Queue(contexts, op)
        /\ built' = Append(built, op)
        /\ frames' = SetCur([Cur EXCEPT !.res = OperatorValue(op), !.pc = "exit"])
    /\ UNCHANGED <<fn, nest, args, pc, out, err, pre, expanded>>

\* The function constructs one more operator.
FnConstruct(op) ==
    /\ UNCHANGED <<cvars, mvars>>
    /\ At("call") /\ Innermost /\ fn.form = "function"
    /\ Len(built) + Len(expanded) < MaxOps
    /\ contexts' = Queue(contexts, op)
    /\ built' = Append(built, op)
    /\ UNCHANGED <<fn, nest, args, frames, pc, out, err, pre, expanded>>

\* The function returns without a value.
FnReturnNone ==
    /\ UNCHANGED <<cvars, mvars>>
    /\ At("call") /\ Innermost /\ fn.form = "function"
    /\ frames' = SetCur([Cur EXCEPT !.res = None, !.pc = "exit"])
    /\ UNCHANGED <<contexts, fn, nest, args, pc, out, err, pre, built, expanded>>

\* The function opens a tape of its own, as op.expand() does.
FnExpandEnter ==
    /\ UNCHANGED <<cvars, mvars>>
    /\ At("call") /\ Innermost /\ fn.form = "function"
    /\ contexts' = Append(contexts, TapeEntry(<<>>))
    /\ frames' = SetCur([Cur EXCEPT !.pc = "expand"])
    /\ UNCHANGED <<fn, nest, args, pc, out, err, pre, built, expanded>>

\* The function constructs one more operator inside its own tape.
FnExpandConstruct(op) ==
    /\ UNCHANGED <<cvars, mvars>>
    /\ At("expand")
    /\ Len(built) + Len(expanded) < MaxOps
    /\ contexts' = Queue(contexts, op)
    /\ expanded' = Append(expanded, op)
    /\ UNCHANGED <<fn, nest, args, frames, pc, out, err, pre, built>>

\* The function closes its own tape and returns it.
FnReturnTape ==
    /\ UNCHANGED <<cvars, mvars>>
    /\ At("expand")
    /\ contexts' = Pop(contexts)
    /\ frames' = SetCur([Cur EXCEPT !.res = TapeValue(Top(contexts).ops), !.pc = "exit"])
    /\ UNCHANGED <<fn, nest, args, pc, out, err, pre, built, expanded>>

\* The function raises; a tape of its own is closed on the way out.
FnRaise ==
    /\ UNCHANGED <<cvars, mvars>>
    /\ \/ At("call") /\ Innermost /\ fn.form = "function"
       \/ At("expand")
    /\ contexts' = IF Cur.pc = "expand" THEN Pop(contexts) ELSE contexts
    /\ frames' = SetCur([Cur EXCEPT !.exc = [type |-> "ProcedureError", msg |-> <<>>],
                                     !.pc = "exit"])
    /\ UNCHANGED <<fn, nest, args, pc, out, err, pre, built, expanded>>

\* The with-block is left: the inner tape is exited; the wrapper keeps it.
ExitTape ==
    /\ UNCHANGED <<cvars, mvars>>
    /\ At("exit")
    /\ contexts' = ExitInner(contexts, Cur.exc)
    /\ frames' = SetCur([Cur EXCEPT !.tape = TapeValue(Top(contexts).ops), !.pc = "release"])
    /\ UNCHANGED <<fn, nest, args, pc, out, err, pre, built, expanded>>

\* stop_recording() ends: the suspension is released.
Release ==
    /\ UNCHANGED <<cvars, mvars>>
    /\ At("release") /\ Cur.exc = NoError
    /\ contexts' = Pop(contexts)
    /\ frames' = SetCur([Cur EXCEPT !.pc = "check"])
    /\ UNCHANGED <<fn, nest, args, pc, out, err, pre, built, expanded>>

\* The same with an error pending: it propagates out of the wrapper.
ReleaseRaise ==
    /\ UNCHANGED <<cvars, mvars>>
    /\ At("release") /\ Cur.exc # NoError
    /\ contexts' = Pop(contexts)
    /\ Raise(Cur.exc)
    /\ UNCHANGED <<fn, nest, args, pre, built, expanded>>

\* if not tape.operations: tape = res
CheckTape ==
    /\ UNCHANGED <<cvars, mvars>>
    /\ At("check")
    /\ frames' = SetCur([Cur EXCEPT !.tape = UseResult(Cur.tape, Cur.res), !.pc = "build"])
    /\ UNCHANGED <<contexts, fn, nest, args, pc, out, err, pre, built, expanded>>

\* adjoint_ops = [Adjoint(op) for op in reversed(tape.operations)]
BuildAdjoints ==
    /\ UNCHANGED <<cvars, mvars>>
    /\ At("build") /\ HasOperations(Cur.tape)
    /\ LET ops == AdjointOps(Cur.tape.ops) IN
        /\ contexts' = Emit(contexts, ops)
        /\ frames' = SetCur([Cur EXCEPT !.adjoint_ops = ops, !.pc = "return"])
    /\ UNCHANGED <<fn, nest, args, pc, out, err, pre, built, expanded>>

\* tape.operations of a value that has no such attribute.
BuildFails ==
    /\ UNCHANGED <<cvars, mvars>>
    /\ At("build") /\ ~HasOperations(Cur.tape)
    /\ Raise([type |-> "AttributeError", msg |-> <<TypeOf([name |-> Cur.tape.t]), Text("operations")>>])
    /\ UNCHANGED <<contexts, fn, nest, args, pre, built, expanded>>

\* return adjoint_ops[0] if len(adjoint_ops) == 1 else adjoint_ops
Return ==
    /\ UNCHANGED <<cvars, mvars>>
    /\ At("return")
    /\ Deliver(ReturnValue(Cur.adjoint_ops))
    /\ UNCHANGED <<contexts, fn, nest, args, pre, built, expanded>>

Next ==
    \/ UserEnterTape
    \/ UserConstruct
    \/ \E f \in Fns : adjoint(f)
    \/ \E a \in ArgChoices(fn) : wrapper(a)
    \/ StopRecording
    \/ EnterTape
    \/ CallWrapper
    \/ CallOpClass
    \/ \E op \in FnOps : FnConstruct(op)
    \/ FnReturnNone
    \/ FnExpandEnter
    \/ \E op \in FnOps : FnExpandConstruct(op)
    \/ FnReturnTape
    \/ FnRaise
    \/ ExitTape
    \/ Release
    \/ ReleaseRaise
    \/ CheckTape
    \/ BuildAdjoints
    \/ BuildFails
    \/ Return

Spec == Init /\ [][Next]_vars

----------------------------------------------------------------------------
(* Calls of the gates' methods *)

MaxCalls == 2      \* method calls on the gates in one run, at most

wrest == <<fn, nest, args, frames, pc, out, err, pre, built, expanded>>

\* One run exercises one class: the kind of the instance and of every call
\* made so far.
InUse(kind) ==
    /\ inst # NoInst => inst.kind = kind
    /\ \A c \in memo : c.kind = kind

\* op = Kind(phi, wires=wires): constructing an operator records it.
Construct(kind, phi, wires) ==
    /\ inst = NoInst
    /\ InUse(kind)
    /\ inst' = Operator(kind, <<phi>>, wires)
    /\ contexts' = Queue(contexts, inst')
    /\ method' = "__init__"
    /\ result' = None
    /\ UNCHANGED <<memo, calls, wrest, mvars>>

\* op.adjoint() on the instance at hand; the operator it constructs is
\* recorded like any other, and self is only read.
CallAdjoint ==
    /\ calls < MaxCalls
    /\ inst # NoInst
    /\ result' = OperatorValue(OpAdjoint(inst))
    /\ contexts' = Queue(contexts, OpAdjoint(inst))
    /\ calls' = calls + 1
    /\ method' = "adjoint"
    /\ UNCHANGED <<inst, memo, wrest, mvars>>

\* compute_decomposition whose operators reach the tape last one first.
CallDecompositionReversed(kind, phi, wires) ==
    /\ calls < MaxCalls /\ InUse(kind)
    /\ result' = compute_decomposition(kind, phi, wires)
    /\ contexts' = QueueAll(contexts, reversed(result'.ops))
    /\ memo' = memo \cup {[kind |-> kind, phi |-> phi, wires |-> wires,
                           ctx |-> contexts, self |-> inst, result |-> result']}
    /\ calls' = calls + 1
    /\ method' = "compute_decomposition"
    /\ UNCHANGED <<inst, wrest, mvars>>

\* Kind.compute_decomposition(phi, wires), a static method: the operators it
\* constructs are recorded in the order it lists them.
CallDecomposition(kind, phi, wires) ==
    /\ calls < MaxCalls
    /\ InUse(kind)
    /\ result' = compute_decomposition(kind, phi, wires)
    /\ contexts' = QueueAll(contexts, result'.ops)
    /\ memo' = memo \cup {[kind |-> kind, phi |-> phi, wires |-> wires,
                            ctx |-> contexts, self |-> inst, result |-> result']}
    /\ calls' = calls + 1
    /\ method' = "compute_decomposition"
    /\ UNCHANGED <<inst, wrest, mvars>>

\* with stop_recording(): around the calls that follow: recording on the
\* active tape is suspended. Only an active tape can be suspended.
UserSuspend ==
    /\ pc = "idle" /\ fn = NoFn
    /\ Recording(contexts)
    /\ contexts' = Append(contexts, StopEntry)
    /\ UNCHANGED <<cvars, wrest, mvars>>

GateNext ==
    \/ UserEnterTape
    \/ UserSuspend
    \/ \E kind \in QchemKinds : \E phi \in PhiChoices(kind) : \E wires \in GateWires(kind) :
          Construct(kind, phi, wires)
    \/ CallAdjoint
    \/ \E kind \in QchemKinds : \E phi \in PhiChoices(kind) : \E wires \in GateWires(kind) :
          CallDecomposition(kind, phi, wires)

GateSpec == Init /\ [][GateNext]_vars

----------------------------------------------------------------------------
(* Evaluating matrices *)

\* The parameters the decompositions are multiplied out for, 0 included.
ProductAngles(kind) == {0 - PhiUnit(kind), 0, PhiUnit(kind)}

\* The parameters two gates of one kind are composed for: the matrices need
\* theta / 2 only, and the denominators of the product stay small.
ComposeAngles == {-2, 0, 2, 4}

\* The decomposition of Kind(phi, wires) is asked for, to be multiplied out
\* operator by operator, the first listed first.
StartProduct(kind, phi, wires) ==
    /\ mpc = "idle"
    /\ HasDecomposition(kind)
    /\ mop' = Operator(kind, <<phi>>, wires)
    /\ mtheta' = 0
    /\ todo' = compute_decomposition(kind, phi, wires).ops
    /\ acc' = Identity(NumWires(kind))
    /\ mpc' = "product"
    /\ UNCHANGED <<wvars, cvars>>

\* The next operator of the list acts after the ones before it.
ApplyNext ==
    /\ mpc = "product"
    /\ todo # <<>>
    /\ acc' = ApplyOp(Head(todo), acc, mop.wires)
    /\ todo' = Tail(todo)
    /\ UNCHANGED <<mpc, mop, mtheta, wvars, cvars>>

\* Every operator of the list was multiplied in.
FinishProduct ==
    /\ mpc = "product"
    /\ todo = <<>>
    /\ mpc' = "done"
    /\ UNCHANGED <<mop, mtheta, todo, acc, wvars, cvars>>

\* Kind(phi) followed by Kind(theta) on the same wires: the product
\* matrix(theta) matrix(phi).
Compose(kind, phi, theta) ==
    /\ mpc = "idle"
    /\ mop' = Operator(kind, <<phi>>, CHOOSE w \in GateWires(kind) : w[1] = 0)
    /\ mtheta' = theta
    /\ acc' = MatMul(matrix(kind, theta), matrix(kind, phi))
    /\ mpc' = "composed"
    /\ UNCHANGED <<todo, wvars, cvars>>

MatrixNext ==
    \/ \E kind \in QchemKinds : \E phi \in ProductAngles(kind) : \E wires \in GateWires(kind) :
          StartProduct(kind, phi, wires)
    \/ ApplyNext
    \/ FinishProduct
    \/ \E kind \in QchemKinds : \E phi \in ComposeAngles : \E theta \in ComposeAngles :
          Compose(kind, phi, theta)

MatrixSpec == Init /\ [][MatrixNext]_vars

----------------------------------------------------------------------------
(* Properties *)

Done == pc = "done"
Returned == Done /\ err = NoError /\ nest >= 1

\* The operators the outermost call transforms when fn is not a wrapper.
Captured == IF built # <<>> THEN built ELSE expanded

\* o is the generic Adjoint wrapper of a: a is its base, data and wires are a's.
Wraps(o, a) ==
    /\ o.adj = a.adj + 1
    /\ o.kind = a.kind
    /\ o.data = a.data
    /\ o.wires = a.wires

\* outs are the wrappers of src, one each, in reversed order.
ReversedAdjoints(outs, src) ==
    /\ Len(outs) = Len(src)
    /\ \A i \in 1..Len(src) : Wraps(outs[i], src[Len(src) + 1 - i])

\* What the ambient tape gained since the call was made.
Gained ==
    IF Recording(pre) /\ Recording(contexts)
           /\ Len(Top(contexts).ops) >= Len(Top(pre).ops)
    THEN SubSeq(Top(contexts).ops, Len(Top(pre).ops) + 1, Len(Top(contexts).ops))
    ELSE <<>>

\* C1: a function that constructs A1..An (n >= 2) under adjoint(function)
\* yields exactly n outputs, the i-th being the adjoint of A(n+1-i) with that
\* operator's own parameters and wires.
C1_ReversedOrder ==
    (Returned /\ nest = 1 /\ fn.form = "function" /\ Len(built) >= 2)
        => /\ out.t = "list"
           /\ ReversedAdjoints(out.ops, built)

C1_Witness ==
    /\ Returned /\ nest = 1 /\ fn.form = "function"
    /\ Len(built) = 3 /\ built[1] # built[3]
    /\ Wraps(out.ops[1], built[3]) /\ Wraps(out.ops[3], built[1])

\* C2: every captured operator whose kind defines adjoint() is mapped to
\* op.adjoint() (same kind, negated parameter), and only the others to the
\* generic Adjoint wrapper.
C2_ShortcutUsed ==
    (Returned /\ nest = 1)
        => /\ Len(out.ops) = Len(Captured)
           /\ \A i \in 1..Len(Captured) :
                LET op == Captured[Len(Captured) + 1 - i] IN
                out.ops[i] = IF HasAdjoint(op) THEN OpAdjoint(op) ELSE Adjoint(op)

C4_DoubleAdjointCancels ==
    (Returned /\ nest = 2 /\ fn.form = "opclass")
        => /\ out.t = "Operator"
           /\ out.ops[1] = Operator(fn.name, args.data, args.wires)

C6_AmbientGainsOutputs ==
    (Returned /\ Recording(pre))
        => /\ Len(contexts) = Len(pre)
           /\ Pop(contexts) = Pop(pre)
           /\ Top(contexts) = TapeEntry(Top(pre).ops \o out.ops)
           /\ \A i \in 1..Len(out.ops) : out.ops[i].adj = nest
           /\ out.t = "Operator" => Len(Gained) = 1
           /\ Len(Gained) = Len(Captured)

C6_Witness ==
    /\ Returned /\ Recording(pre) /\ fn.form = "function"
    /\ Len(built) = 2 /\ Len(Gained) = 2
    /\ Top(pre).ops # <<>>

\* C7: when the procedure raises, the error reaches the caller, the inner
\* tape is popped and the suspension released (the context stack is as before
\* the call) and the ambient tape has gained nothing.
Pending == \E i \in 1..Len(frames) : frames[i].exc.type = "ProcedureError"

C7_State ==
    /\ Pending => Cur.exc.type = "ProcedureError" /\ Cur.pc \in {"exit", "release"}
    /\ (Done /\ err.type = "ProcedureError")
            => /\ contexts = pre
               /\ frames = <<>>
               /\ out = None

C7_Step == Pending => (Pending' \/ (pc' = "done" /\ err'.type = "ProcedureError"))

C7_ErrorRestoresContext == [](C7_State) /\ [][C7_Step]_vars

C7_Witness ==
    /\ Done /\ err.type = "ProcedureError"
    /\ Len(built) = 2 /\ nest = 2
    /\ Recording(pre) /\ contexts = pre

\* C8: adjoint(fn) of a non-callable fails with ValueError at once: no wrapper
\* is returned, the recording context is untouched, and the message names the
\* runtime type of fn followed by "is not callable.".
C8_NonCallable ==
    (fn.form = "object")
        => /\ Done
           /\ err.type = "ValueError"
           /\ nest = 0 /\ frames = <<>>
           /\ contexts = pre
           /\ \E i \in 1..(Len(err.msg) - 1) :
                /\ err.msg[i] = [k |-> "type", v |-> fn.name]
                /\ err.msg[i + 1] = Text("is not callable.")

C8_Witness ==
    /\ fn = [form |-> "object", name |-> "list"]
    /\ Done /\ err.type = "ValueError"
    /\ Recording(contexts)

\* C9: one captured operator gives the single adjointed operator itself;
\* N # 1 captured operators give a sequence of exactly N.
C9_ReturnShape ==
    (Returned /\ nest = 1)
        => /\ Len(Captured) = 1 => out.t = "Operator" /\ Len(out.ops) = 1
           /\ Len(Captured) # 1 => out.t = "list" /\ Len(out.ops) = Len(Captured)

C9_Witness ==
    /\ Returned /\ nest = 1 /\ fn.form = "function"
    /\ Len(built) = 1 /\ out.t = "Operator"

\* C10: with nothing captured by the inner tape the returned tape's
\* operations are transformed; with something captured the return value is
\* ignored.
C10_EscapeHatch ==
    (Returned /\ nest = 1 /\ fn.form = "function")
        => /\ built = <<>> => ReversedAdjoints(out.ops, expanded)
           /\ built # <<>> => ReversedAdjoints(out.ops, built)

C10_Witness ==
    /\ Returned /\ nest = 1 /\ fn.form = "function"
    /\ built = <<>> /\ Len(expanded) = 2 /\ expanded[1] # expanded[2]
    /\ Wraps(out.ops[1], expanded[2])

----------------------------------------------------------------------------
(* Properties of the gates' methods *)

\* C11: op.adjoint() of each of the seven kinds returns an operator of the
\* same kind, on the same wires in the same order, whose single parameter is
\* the negated parameter of op; the call leaves op as it was.
C11_State ==
    method = "adjoint" =>
        /\ result.t = "Operator"
        /\ result.ops[1].adj = 0
        /\ result.ops[1].kind = inst.kind
        /\ result.ops[1].wires = inst.wires
        /\ result.ops[1].data = <<0 - inst.data[1]>>
        /\ Len(inst.data) = 1

C11_Step == (method' = "adjoint" /\ calls' = calls + 1) => inst' = inst

C11_AdjointNegatesParameter == [](C11_State) /\ [][C11_Step]_vars

\* DoubleExcitationPlus(-2, wires=[3, 1, 0, 2]).adjoint() was called.
C11_Witness ==
    /\ method = "adjoint"
    /\ inst = Operator("DoubleExcitationPlus", <<-2>>, <<3, 1, 0, 2>>)
    /\ result.ops[1].data = <<2>>


\* The operator kind(data, wires) written out as a value.
Gate(kind, data, wires) == [adj |-> 0, kind |-> kind, data |-> data, wires |-> wires]

\* The nine operators the claim lists for SingleExcitationMinus, where h is
\* -phi / 2.
NineOperators(phi, h, w0, w1) ==
    <<Gate("PauliX", <<>>, <<w0>>),
      Gate("PauliX", <<>>, <<w1>>),
      Gate("ControlledPhaseShift", <<h>>, <<w1, w0>>),
      Gate("PauliX", <<>>, <<w0>>),
      Gate("PauliX", <<>>, <<w1>>),
      Gate("ControlledPhaseShift", <<h>>, <<w0, w1>>),
      Gate("CNOT", <<>>, <<w0, w1>>),
      Gate("CRY", <<phi>>, <<w1, w0>>),
      Gate("CNOT", <<>>, <<w0, w1>>)>>

\* C12: SingleExcitationMinus.compute_decomposition(phi, (w0, w1)) returns
\* exactly PauliX(w0), PauliX(w1), ControlledPhaseShift(-phi/2, [w1, w0]),
\* PauliX(w0), PauliX(w1), ControlledPhaseShift(-phi/2, [w0, w1]),
\* CNOT([w0, w1]), CRY(phi, [w1, w0]), CNOT([w0, w1]), in this order.
C12_MinusDecomposition ==
    \A c \in memo :
        c.kind = "SingleExcitationMinus" =>
            \E h \in -PhiUnit(c.kind)..PhiUnit(c.kind) :
                /\ 2 * h = 0 - c.phi
                /\ c.result.t = "list"
                /\ c.result.ops = NineOperators(c.phi, h, c.wires[1], c.wires[2])

\* SingleExcitationMinus.compute_decomposition(2, [1, 0]) returned nine operators.
C12_Witness ==
    \E c \in memo :
        /\ c.kind = "SingleExcitationMinus" /\ c.phi = 2 /\ c.wires = <<1, 0>>
        /\ Len(c.result.ops) = 9
        /\ c.result.ops[3].data = <<-1>>

\* C13: DoubleExcitationPlus and DoubleExcitationMinus define no
\* compute_decomposition, so asking for theirs raises the
\* decomposition-undefined error and yields no sequence, empty or
\* otherwise; each of the other five kinds returns a non-empty sequence.
C13_UndefinedDecomposition ==
    \A c \in memo :
        IF c.kind \in {"DoubleExcitationPlus", "DoubleExcitationMinus"}
        THEN c.result.t = "DecompositionUndefinedError" /\ c.result.ops = <<>>
        ELSE c.result.t = "list" /\ c.result.ops # <<>>

\* DoubleExcitationMinus was asked for its decomposition, with an instance
\* of it at hand.
C13_Witness ==
    /\ inst.kind = "DoubleExcitationMinus"
    /\ method = "compute_decomposition"
    /\ result.t = "DecompositionUndefinedError"
    /\ \E c \in memo : c.kind = "DoubleExcitationMinus" /\ c.result = result


----------------------------------------------------------------------------
(* Properties of the matrices and generators *)

\* The gate under evaluation.
Evaluating == mpc # "idle"
Kind == mop.kind
Phi == mop.data[1]

\* C14: for each of the seven kinds, the matrix built from the parameter of
\* op.adjoint() is, entry by entry, the conjugate transpose of the matrix
\* built from the parameter of op; also at phi = 0.
C14_AdjointMatrix ==
    Evaluating =>
        SameMatrix(matrix(OpAdjoint(mop).kind, OpAdjoint(mop).data[1]),
                   ConjugateTranspose(matrix(Kind, Phi)))

\* OrbitalRotation at a nonzero angle, whose matrix is not symmetric, was
\* evaluated.
C14_Witness ==
    /\ Evaluating /\ Kind = "OrbitalRotation" /\ Phi = 4
    /\ matrix(Kind, Phi).m[3][6] # matrix(Kind, Phi).m[6][3]
    /\ matrix(Kind, 0 - Phi).m[3][6] = matrix(Kind, Phi).m[6][3]

\* The global phases looked for: the powers of i.
UnitPhases == {<<1, 0>>, <<0, 1>>, <<-1, 0>>, <<0, -1>>}

\* C15: for each of the five kinds with a compute_decomposition, the
\* product of the matrices of the sequence, the first listed acting first,
\* is the kind's matrix(phi) times a global phase (here a power of i); at
\* phi = 0 the product is the identity.
C15_DecompositionMatrix ==
    mpc = "done" =>
        /\ \E phase \in UnitPhases : SameMatrix(acc, TimesPhase(phase, matrix(Kind, Phi)))
        /\ Phi = 0 => SameMatrix(acc, Identity(NumWires(Kind)))

\* The 28 operators of DoubleExcitation(16 ticks) on permuted wires were
\* multiplied out, and the product is not the identity.
C15_Witness ==
    /\ mpc = "done" /\ Kind = "DoubleExcitation" /\ Phi = 16
    /\ mop.wires = <<3, 1, 0, 2>>
    /\ acc.r = 8 /\ acc.h = 6
    /\ acc.m[3][12] # <<0, 0>>


\* The numerators of the generator of the gate under evaluation, and the
\* rows and columns of its matrix.
G == generator(Kind)
Rows == Indices(NumWires(Kind))
Hermitian(A) == \A i \in Rows : \A j \in Rows : A[i][j] = Conj(A[j][i])
Sparse == Evaluating /\ Kind \in {"DoubleExcitationPlus", "DoubleExcitationMinus"}

\* C16 as stated: the generator of DoubleExcitationPlus and of
\* DoubleExcitationMinus is Hermitian and every entry outside the rows and
\* columns 3 and 12 is zero.
C16_SupportedOnTwoStates ==
    Sparse =>
        /\ Hermitian(G)
        /\ \A i \in Rows \ {3, 12} : \A j \in Rows \ {3, 12} : G[i][j] = <<0, 0>>

\* C16, amended: the generator of DoubleExcitationPlus and of
\* DoubleExcitationMinus is a Hermitian 16 x 16 matrix whose only nonzero
\* off-diagonal entries are (3, 12) = i/2 and (12, 3) = -i/2; its diagonal
\* is 0 at 3 and 12 and, at each of the fourteen other indices, +1/2 for
\* Plus and -1/2 for Minus.
C16_SparseGenerator ==
    Sparse =>
        /\ Cardinality(Rows) = 16
        /\ GeneratorDen(Kind) = 2
        /\ Hermitian(G)
        /\ \A i \in Rows : \A j \in Rows \ {i} :
                G[i][j] # <<0, 0>> => {i, j} = {3, 12}
        /\ G[3][12] = <<0, 1>> /\ G[12][3] = <<0, -1>>
        /\ G[3][3] = <<0, 0>> /\ G[12][12] = <<0, 0>>
        /\ \A i \in Rows \ {3, 12} :
                G[i][i] = IF Kind = "DoubleExcitationPlus" THEN <<1, 0>> ELSE <<-1, 0>>

\* The generator of DoubleExcitationMinus was built: -1/2 at (0, 0).
C16_Witness ==
    /\ Sparse /\ Kind = "DoubleExcitationMinus"
    /\ G[0][0] = <<-1, 0>>
    /\ G[3][12] # <<0, 0>>

\* i times a complex number.
TimesI(a) == <<0 - a[2], a[1]>>

\* GeneratorDen * (2 U'(0) + i G), U the matrix of the kind.
HalfAngleDefect(i, j) ==
    CAdd(CScale(GeneratorDen(Kind), TwiceDerivativeAtZero(Kind)[i][j]), TimesI(G[i][j]))

\* C17 as stated: matrix(theta) = exp(-i theta G / 2) up to a global phase
\* exp(i a(theta)), so the derivative of matrix at theta = 0 is -i G / 2
\* plus the phase term i a'(0) times the identity: U'(0) + i G / 2 is an
\* imaginary multiple of the identity.
C17_HalfAngleGenerator ==
    mpc = "composed" =>
        \A i \in Rows : \A j \in Rows :
            IF i = j THEN HalfAngleDefect(i, i)[1] = 0
                          /\ HalfAngleDefect(i, i) = HalfAngleDefect(0, 0)
            ELSE HalfAngleDefect(i, j) = <<0, 0>>

\* C17, amended: for each of the seven kinds, G is Hermitian and
\* matrix(theta) = exp(i theta G), with no factor 1/2, no minus sign and
\* global phase 1: matrix(0) is the identity, the derivative of matrix at
\* theta = 0 is i G, and matrix(theta) matrix(phi) = matrix(phi + theta).
C17_GeneratorConsistent ==
    mpc = "composed" =>
        /\ Hermitian(G)
        /\ SameMatrix(matrix(Kind, 0), Identity(NumWires(Kind)))
        /\ \A i \in Rows : \A j \in Rows :
                CScale(GeneratorDen(Kind), TwiceDerivativeAtZero(Kind)[i][j])
                    = CScale(2, TimesI(G[i][j]))
        /\ SameMatrix(acc, matrix(Kind, Phi + mtheta))

\* Two OrbitalRotation gates of different nonzero angles were composed.
C17_Witness ==
    /\ mpc = "composed" /\ Kind = "OrbitalRotation"
    /\ Phi = 2 /\ mtheta = 4
    /\ G[3][6] # <<0, 0>>
    /\ acc.m[3][12] # <<0, 0>>


----------------------------------------------------------------------------
(* Properties of the order of one wrapper call *)

\* How many entries of the stack a wrapper call at position p holds: the
\* suspension, its inner tape on top of it, and a tape the procedure opened.
Own(p) ==
    CASE p \in {"stop_recording", "check", "build", "return"} -> 0
      [] p \in {"enter", "release"} -> 1
      [] p \in {"call", "await", "exit"} -> 2
      [] p = "expand" -> 3

\* The phases of one call in the order of the code: suspend, enter the inner
\* tape, run the procedure, exit the tape, release, read the tape, construct
\* the outputs, return.
Phase(p) ==
    CASE p = "stop_recording" -> 0
      [] p = "enter" -> 1
      [] p \in {"call", "await", "expand"} -> 2
      [] p = "exit" -> 3
      [] p = "release" -> 4
      [] p = "check" -> 5
      [] p = "build" -> 6
      [] p = "return" -> 7

\* Where on the stack the entries of the i-th active wrapper call begin.
Floor(i) == Len(pre) + 2 * (i - 1)

C19_State ==
    /\ pc = "running" =>
        /\ \A i \in 1..(Len(frames) - 1) : frames[i].pc = "await"
        /\ Len(contexts) = Floor(Len(frames)) + Own(Cur.pc)
        /\ \A i \in 1..Len(frames) :
            /\ Own(frames[i].pc) >= 1 => contexts[Floor(i) + 1] = StopEntry
            /\ Own(frames[i].pc) >= 2 =>
                    /\ contexts[Floor(i) + 2].t = "tape"
                    /\ \A k \in 1..Len(contexts[Floor(i) + 2].ops) :
                            contexts[Floor(i) + 2].ops[k].adj = nest - i
            /\ Own(frames[i].pc) = 3 => contexts[Floor(i) + 3].t = "tape"
            /\ frames[i].adjoint_ops # <<>> =>
                    /\ frames[i].pc = "return"
                    /\ \A k \in 1..Len(frames[i].adjoint_ops) :
                            frames[i].adjoint_ops[k].adj = nest - i + 1
        /\ frames[1].pc # "return" => SubSeq(contexts, 1, Len(pre)) = pre
    /\ Returned =>
        /\ Len(contexts) = Len(pre)
        /\ \A k \in 1..Len(pre) :
            /\ contexts[k].t = pre[k].t
            /\ k < Len(pre) => contexts[k] = pre[k]
            /\ SubSeq(contexts[k].ops, 1, Len(pre[k].ops)) = pre[k].ops

C19_Step ==
    \A i \in 1..Len(frames) :
        i <= Len(frames') =>
            /\ Phase(frames'[i].pc) >= Phase(frames[i].pc)
            /\ Phase(frames'[i].pc) <= Phase(frames[i].pc) + 1
            /\ frames'[i].adjoint_ops # frames[i].adjoint_ops =>
                    /\ Len(contexts) = Floor(i)
                    /\ Phase(frames[i].pc) = 6

\* C19: within one wrapper call the context operations are strictly
\* nested and ordered: suspend, enter the inner tape, run the procedure,
\* exit the inner tape, release the suspension, and only then construct the
\* outputs.  The outputs of a call are built when the stack is back at the
\* height the call found, so its inner tape never holds one of them; after
\* a normal return the stack is the one before the call, its top tape
\* extended by the outputs at most.  The same holds for each call of a
\* nested pair.
C19_StrictNesting == [](C19_State) /\ [][C19_Step]_vars

\* A nested call on an ambient tape: the inner wrapper has built its output
\* into the inner tape of the outer one, which is still suspended.
C19_Witness ==
    /\ pc = "running" /\ nest = 2 /\ Len(frames) = 2
    /\ pre # <<>>
    /\ Cur.pc = "return"
    /\ Cur.adjoint_ops # <<>>
    /\ Len(contexts) = Len(pre) + 2
    /\ Top(contexts).ops = Cur.adjoint_ops

C20_State ==
    (Done /\ err.type = "AttributeError") => (out = None /\ contexts = pre)

C20_Step ==
    /\ (At("check") /\ Cur.res = None /\ Cur.tape.ops = <<>>) =>
            (Len(frames') = Len(frames) /\ Cur'.pc = "build" /\ Cur'.tape = None)
    /\ (At("build") /\ Cur.tape = None) =>
            /\ contexts' = contexts
            /\ IF Len(frames) = 1
               THEN pc' = "done" /\ err'.type = "AttributeError" /\ out' = None
               ELSE /\ Len(frames') = Len(frames) - 1
                    /\ Cur'.exc.type = "AttributeError"
                    /\ Cur'.res = None

\* C20: when the procedure constructs no operator and returns None, the
\* wrapper call fails with an error (None has no operations) instead of
\* returning an empty sequence; nothing is appended to the ambient tape and
\* the stack is the one before the call.
C20_NoneFails == [](C20_State) /\ [][C20_Step]_vars

\* Such a call, made inside an ambient tape with an operator on it, failed.
C20_Witness ==
    /\ Done /\ err.type = "AttributeError"
    /\ err.msg = <<TypeOf([name |-> "None"]), Text("operations")>>
    /\ fn.form = "function" /\ built = <<>> /\ expanded = <<>>
    /\ pre # <<>> /\ Top(pre).ops # <<>>
    /\ contexts = pre


\* The wires of a sequence, as a set.
WireSet(wires) == {wires[i] : i \in 1..Len(wires)}
Distinct(wires) == Cardinality(WireSet(wires)) = Len(wires)

\* C21: when compute_decomposition is called with pairwise distinct wires,
\* every operator of the returned sequence acts on wires of the input only,
\* on pairwise distinct wires (no control equal to its target), and on at
\* most two wires.
C21_DecompositionWires ==
    \A c \in memo :
        (Distinct(c.wires) /\ c.result.t = "list") =>
            \A k \in 1..Len(c.result.ops) :
                /\ WireSet(c.result.ops[k].wires) \subseteq WireSet(c.wires)
                /\ Distinct(c.result.ops[k].wires)
                /\ Len(c.result.ops[k].wires) \in {1, 2}

\* DoubleExcitation was decomposed on permuted wires: 28 operators, one-
\* and two-wire ones among them.
C21_Witness ==
    \E c \in memo :
        /\ c.kind = "DoubleExcitation" /\ c.wires = <<3, 1, 0, 2>>
        /\ Len(c.result.ops) = 28
        /\ c.result.ops[1].wires = <<0, 2>>
        /\ c.result.ops[3].wires = <<2>>


----------------------------------------------------------------------------
(* Properties of the gates' methods and the tape *)

\* A tape is on top of the stack: active, and not suspended.
ActiveTape(ctx) == Len(ctx) > 0 /\ ctx[Len(ctx)].t = "tape"

\* The stack with ops added, in their order, at the end of its top entry.
Extended(ctx, ops) ==
    [i \in 1..Len(ctx) |->
        IF i = Len(ctx) THEN [ctx[i] EXCEPT !.ops = ctx[i].ops \o ops] ELSE ctx[i]]

CallStep(name) == calls' = calls + 1 /\ method' = name

C22_Step ==
    /\ CallStep("compute_decomposition") =>
           contexts' = IF ActiveTape(contexts)
                          THEN Extended(contexts, result'.ops)
                          ELSE contexts
    /\ CallStep("adjoint") =>
           /\ Len(result'.ops) = 1
           /\ result'.ops[1].data = <<0 - inst.data[1]>>
           /\ contexts' = IF ActiveTape(contexts)
                              THEN Extended(contexts, result'.ops)
                              ELSE contexts

\* C22: compute_decomposition and adjoint() construct their operators in
\* the ordinary way: called on an active tape that is not suspended, every
\* operator of the decomposition, in sequence order (for adjoint(), the one
\* operator with the negated parameter), is added at the end of that tape
\* and nothing else changes; with no recording context, or under
\* suspension, the stack of recording contexts is left as it was.
C22_CallsRecord == [][C22_Step]_vars

\* On an active tape SingleExcitationMinus was decomposed and its nine
\* operators are on the tape in order after the gate itself; then, under
\* suspension, adjoint() returned an operator and the tape kept its ten.
C22_Witness ==
    /\ method = "adjoint" /\ calls = 2
    /\ Len(contexts) = 2 /\ contexts[2] = StopEntry
    /\ inst # NoInst /\ inst.kind = "SingleExcitationMinus"
    /\ \E c \in memo :
          /\ c.ctx = <<TapeEntry(<<inst>>)>>
          /\ Len(c.result.ops) = 9
          /\ c.result.ops[1] # c.result.ops[9]
          /\ contexts[1] = TapeEntry(<<inst>> \o c.result.ops)


====
